---------------------------- MODULE Spec2Model ----------------------------
(***************************************************************************)
(* Model of OPReturnTransactionBuilder (src/main.py): the OP_RETURN script *)
(* encoder _create_op_return_script and the transaction builder            *)
(* create_transaction.                                                     *)
(*                                                                         *)
(* Byte strings (Python bytes) are kept run-length encoded: a byte string  *)
(* is the sequence of its maximal runs <<count, byte>>, count >= 1, no two *)
(* adjacent runs with the same byte.  The encoding is a bijection with     *)
(* byte strings, so equality of encodings is equality of byte strings, and *)
(* a 65535-byte payload stays a small value.                               *)
(***************************************************************************)
EXTENDS Integers, Sequences, FiniteSets, TLC

VARIABLES builder, pc, method, args, ret, frame, stdout,
          signer, calls, decoded, prog

\* The builder and its call in progress
corevars == <<builder, pc, method, args, ret, frame, stdout>>

\* A sign_transaction call, the log of create_transaction calls, the history
\* display's decoding, a run of main
extvars == <<signer, calls, decoded, prog>>

vars == <<builder, pc, method, args, ret, frame, stdout, signer, calls, decoded, prog>>

-----------------------------------------------------------------------------
(* Python bytes *)

\* b""
BEmpty == <<>>

\* len(b)
RECURSIVE BLen(_)
BLen(b) == IF b = <<>> THEN 0 ELSE b[1][1] + BLen(Tail(b))

\* b1 + b2
BCat(b1, b2) ==
    IF b1 = <<>> THEN b2
    ELSE IF b2 = <<>> THEN b1
    ELSE IF b1[Len(b1)][2] = b2[1][2]
         THEN SubSeq(b1, 1, Len(b1) - 1)
                \o << <<b1[Len(b1)][1] + b2[1][1], b2[1][2]>> >>
                \o Tail(b2)
         ELSE b1 \o b2

\* bytes([x1, ..., xn]) for a list of integers in range(256)
RECURSIVE BytesOf(_)
BytesOf(xs) ==
    IF xs = <<>> THEN BEmpty
    ELSE BCat(BytesOf(SubSeq(xs, 1, Len(xs) - 1)), << <<1, xs[Len(xs)]>> >>)

\* b[i - 1]: the i-th byte, 1 <= i <= len(b) (used to state the properties)
RECURSIVE BAt(_, _)
BAt(b, i) == IF i <= b[1][1] THEN b[1][2] ELSE BAt(Tail(b), i - b[1][1])

\* b[k:] (used to state the properties)
RECURSIVE BDrop(_, _)
BDrop(b, k) ==
    IF k = 0 \/ b = <<>> THEN b
    ELSE IF b[1][1] <= k THEN BDrop(Tail(b), k - b[1][1])
    ELSE << <<b[1][1] - k, b[1][2]>> >> \o Tail(b)

\* n.to_bytes(2, byteorder="little"), 0 <= n <= 65535
ToBytes2LE(n) == BytesOf(<<n % 256, n \div 256>>)


-----------------------------------------------------------------------------
(* Program constants *)

OP_RETURN == 106
OP_PUSHDATA1 == 76
OP_PUSHDATA2 == 77
MaxDirectPush == 75
MaxPushData1 == 255
MaxPushData2 == 65535
TxVersion == 2
TxLocktime == 0
BaseOverhead == 10
InputVsize == 68
OutputOverhead == 10
ChangeOutputVsize == 31
MinFee == 1
DustLimit == 546

-----------------------------------------------------------------------------
(* Return values and exceptions *)

Returned(v) == [raised |-> FALSE, exc |-> "", value |-> v]
Raised(e) == [raised |-> TRUE, exc |-> e, value |-> <<>>]

-----------------------------------------------------------------------------
(* OPReturnTransactionBuilder._create_op_return_script *)

\* script.Script(data): the script is its bytes
Script(bs) == bs

create_op_return_script_at75(data) ==
    IF BLen(data) < MaxDirectPush
    THEN Returned(Script(BCat(BytesOf(<<OP_RETURN, BLen(data)>>), data)))
    ELSE IF BLen(data) <= MaxPushData1
    THEN Returned(Script(BCat(BytesOf(<<OP_RETURN, OP_PUSHDATA1, BLen(data)>>), data)))
    ELSE IF BLen(data) <= MaxPushData2
    THEN Returned(Script(BCat(BCat(BytesOf(<<OP_RETURN, OP_PUSHDATA2>>),
                                   ToBytes2LE(BLen(data))), data)))
    ELSE Raised("ValueError: OP_RETURN data too large")

create_op_return_script_wrap(data) ==
    IF BLen(data) <= MaxDirectPush
    THEN Returned(Script(BCat(BytesOf(<<OP_RETURN, BLen(data)>>), data)))
    ELSE IF BLen(data) <= MaxPushData1
    THEN Returned(Script(BCat(BytesOf(<<OP_RETURN, OP_PUSHDATA1, BLen(data)>>), data)))
    ELSE Returned(Script(BCat(BCat(BytesOf(<<OP_RETURN, OP_PUSHDATA2>>),
                                   ToBytes2LE(BLen(data) % (MaxPushData2 + 1))), data)))

create_op_return_script(data) ==
    IF BLen(data) <= MaxDirectPush
    THEN Returned(Script(BCat(BytesOf(<<OP_RETURN, BLen(data)>>), data)))
    ELSE IF BLen(data) <= MaxPushData1
    THEN Returned(Script(BCat(BytesOf(<<OP_RETURN, OP_PUSHDATA1, BLen(data)>>), data)))
    ELSE IF BLen(data) <= MaxPushData2
    THEN Returned(Script(BCat(BCat(BytesOf(<<OP_RETURN, OP_PUSHDATA2>>),
                                   ToBytes2LE(BLen(data))), data)))
    ELSE Raised("ValueError: OP_RETURN data too large")

-----------------------------------------------------------------------------
(* embit *)

\* hash160 of a public key: 20 bytes, modelled as 20 copies of the key's
\* tag byte (injective on the keys of the model)
Hash160(pub_key) == << <<20, pub_key>> >>

\* script.p2wpkh(pub_key): OP_0, push of 20 bytes, hash160(pub_key)
p2wpkh(pub_key) == Script(BCat(BytesOf(<<0, 20>>), Hash160(pub_key)))

\* bytes.fromhex(s) accepts a string of hex digit pairs; a hex string is
\* modelled as the sequence of its digits' values
HexValid(s) == Len(s) % 2 = 0

FromHex(s) == BytesOf([i \in 1..(Len(s) \div 2) |-> 16 * s[2 * i - 1] + s[2 * i]])

TransactionInput(txid, vout) == [txid |-> txid, vout |-> vout, witness |-> <<>>]

TransactionOutput(value, script_pubkey) ==
    [value |-> value, script_pubkey |-> script_pubkey]

Transaction(version, locktime) ==
    [version |-> version, locktime |-> locktime, vin |-> <<>>, vout |-> <<>>]

-----------------------------------------------------------------------------
(* Python float (self.fee_rate) and int() *)

\* A float is finite (an exact fraction num/den, den a power of two, so that
\* its product with an integer below 2^53 is exact), nan or inf
Float(num, den) == [kind |-> "finite", num |-> num, den |-> den]
NaN == [kind |-> "nan", num |-> 0, den |-> 1]
Inf == [kind |-> "inf", num |-> 1, den |-> 1]

\* x * n for a float x and an int n > 0
FloatTimesInt(x, n) == [x EXCEPT !.num = @ * n]

\* int(x): truncation toward zero; int(nan) and int(inf) raise
IntOfFloat(x) ==
    IF x.kind = "nan" THEN Raised("ValueError: cannot convert float NaN to integer")
    ELSE IF x.kind = "inf"
    THEN Raised("OverflowError: cannot convert float infinity to integer")
    ELSE IF x.num >= 0 THEN Returned(x.num \div x.den)
    ELSE Returned(-((-x.num) \div x.den))

-----------------------------------------------------------------------------
(* OPReturnTransactionBuilder.create_transaction *)

\* tx.vout.append(output)
AppendOutput_front(vout, output) == <<output>> \o vout

AppendOutput(vout, output) == Append(vout, output)

\* The loop over op_return_data_list, from its i-th element on
RECURSIVE OpReturnLoop(_, _, _, _)
OpReturnLoop(op_return_data_list, i, vout, total_op_return_size) ==
    IF i > Len(op_return_data_list)
    THEN [raised |-> FALSE, exc |-> "", vout |-> vout,
          total_op_return_size |-> total_op_return_size]
    ELSE LET op_return_script == create_op_return_script(op_return_data_list[i])
         IN  IF op_return_script.raised
             THEN [raised |-> TRUE, exc |-> op_return_script.exc, vout |-> vout,
                   total_op_return_size |-> total_op_return_size]
             ELSE OpReturnLoop(
                      op_return_data_list, i + 1,
                      AppendOutput(vout, TransactionOutput(0, op_return_script.value)),
                      total_op_return_size + OutputOverhead
                          + BLen(op_return_data_list[i]))

EstimatedVsize_nochange(total_op_return_size) ==
    BaseOverhead + InputVsize + total_op_return_size

EstimatedVsize(total_op_return_size) ==
    BaseOverhead + InputVsize + total_op_return_size + ChangeOutputVsize

\* if fee < 1: fee = 1
MinimumFee_off(fee) == fee

MinimumFee(fee) == IF fee < MinFee THEN MinFee ELSE fee

ChangeAmount_lossy(utxo_amount, fee) == utxo_amount - fee - 1

ChangeAmount(utxo_amount, fee) == utxo_amount - fee

\* if change_amount < 546
BelowDust_negative(change_amount) == change_amount < 0

BelowDust_inclusive(change_amount) == change_amount <= DustLimit

BelowDust_never(change_amount) == FALSE

BelowDust(change_amount) == change_amount < DustLimit

ChangeScript(pub_key) == p2wpkh(pub_key)

NoFrame ==
    [fee_computed |-> FALSE, total_op_return_size |-> 0, estimated_vsize |-> 0,
     fee |-> 0, change_amount |-> 0]

Outcome(r, f, printed) == [ret |-> r, frame |-> f, printed |-> printed]

\* The two lines printed when the change is dropped
DustWarning(change_amount, utxo_amount, fee) ==
    << [text |-> "Warning: Change amount (%d sats) is below dust limit.",
        values |-> <<change_amount>>],
       [text |-> "Total fee will be %d sats instead of %d sats",
        values |-> <<utxo_amount, fee>>] >>

create_transaction(self, utxo_txid, utxo_vout, utxo_amount, op_return_data_list) ==
    IF ~HexValid(utxo_txid)
    THEN Outcome(Raised("ValueError: non-hexadecimal number found in fromhex()"),
                 NoFrame, <<>>)
    ELSE
    LET tx0 == Transaction(TxVersion, TxLocktime)
        txin == TransactionInput(FromHex(utxo_txid), utxo_vout)
        tx1 == [tx0 EXCEPT !.vin = Append(@, txin)]
        loop == OpReturnLoop(op_return_data_list, 1, tx1.vout, 0)
    IN
    IF loop.raised THEN Outcome(Raised(loop.exc), NoFrame, <<>>)
    ELSE
    LET tx2 == [tx1 EXCEPT !.vout = loop.vout]
        estimated_vsize == EstimatedVsize(loop.total_op_return_size)
        product == IntOfFloat(FloatTimesInt(self.fee_rate, estimated_vsize))
    IN
    IF product.raised
    THEN Outcome(Raised(product.exc),
                 [NoFrame EXCEPT !.total_op_return_size = loop.total_op_return_size,
                                 !.estimated_vsize = estimated_vsize],
                 <<>>)
    ELSE
    LET fee == MinimumFee(product.value)
        change_amount == ChangeAmount(utxo_amount, fee)
        f == [fee_computed |-> TRUE,
              total_op_return_size |-> loop.total_op_return_size,
              estimated_vsize |-> estimated_vsize,
              fee |-> fee, change_amount |-> change_amount]
    IN
    IF BelowDust(change_amount)
    THEN Outcome(Returned(tx2), f, DustWarning(change_amount, utxo_amount, fee))
    ELSE Outcome(
             Returned([tx2 EXCEPT !.vout =
                 AppendOutput(@, TransactionOutput(change_amount,
                                                   ChangeScript(self.wallet.pub_key)))]),
             f, <<>>)

-----------------------------------------------------------------------------
(* Inputs of the model *)

MaxPayloads == 2
MaxLen == 260
RampLen == 16

Min(a, b) == IF a <= b THEN a ELSE b

\* A payload of the given length: "a" repeated, or the bytes 0, 1, 2, ...
\* followed by 0xff bytes
Payload(len, fill) ==
    IF len = 0 THEN BEmpty
    ELSE IF fill = "a" THEN << <<len, 97>> >>
    ELSE BCat([i \in 1..Min(len, RampLen) |-> <<1, i - 1>>],
              IF len > RampLen THEN << <<len - RampLen, 255>> >> ELSE BEmpty)

EncodeLengths == (0..MaxLen) \cup {MaxPushData2 - 1, MaxPushData2, MaxPushData2 + 1}

EncodeData == {Payload(len, fill) : len \in EncodeLengths, fill \in {"a", "ramp"}}

BuildLengths == {0, 13, MaxDirectPush + 1, MaxPushData2, MaxPushData2 + 1}

BuildData == {Payload(len, "ramp") : len \in BuildLengths}

DataLists == UNION {[1..n -> BuildData] : n \in 0..MaxPayloads}

\* "abcd", "0123" and the odd-length "abc"
Txids == {<<10, 11, 12, 13>>, <<0, 1, 2, 3>>, <<10, 11, 12>>}

Vouts == {0, 1}

Amounts == {100, DustLimit, DustLimit + 1, 600, 809, 810, 100000}

FeeRates ==
    {Float(0, 1), Float(1, 256), Float(1, 2), Float(2, 1), Float(10, 1),
     Float(-2, 1), NaN}

\* WalletManager after load_or_generate_key; a public key is a tag byte
Wallets ==
    {[network |-> "test", priv_key |-> 17, pub_key |-> 171],
     [network |-> "main", priv_key |-> 34, pub_key |-> 187]}

-----------------------------------------------------------------------------
(* The state machine *)

NoArgs == <<>>
NoReturn == [raised |-> FALSE, exc |-> "", value |-> <<>>]

\* Nothing signed, logged, decoded or run yet
NoSigner == [pc |-> "idle"]
NoCalls == <<>>
NoDecoded == [done |-> FALSE, data |-> <<>>, data_len |-> 0]
NoProg == [pc |-> "idle"]

ExtInit ==
    /\ signer = NoSigner
    /\ calls = NoCalls
    /\ decoded = NoDecoded
    /\ prog = NoProg

\* OPReturnTransactionBuilder.__init__
BuilderInit(wallet_manager, fee_rate) ==
    [wallet |-> wallet_manager, network |-> wallet_manager.network,
     fee_rate |-> fee_rate]

Init ==
    /\ builder \in {BuilderInit(w, r) : w \in Wallets, r \in FeeRates}
    /\ pc = "ready"
    /\ method = ""
    /\ args = NoArgs
    /\ ret = NoReturn
    /\ frame = NoFrame
    /\ stdout = <<>>
    /\ ExtInit

CallCreateOpReturnScript(data) ==
    /\ pc = "ready"
    /\ method' = "_create_op_return_script"
    /\ args' = [data |-> data]
    /\ ret' = create_op_return_script(data)
    /\ pc' = IF ret'.raised THEN "raised" ELSE "returned"
    /\ UNCHANGED <<builder, frame, stdout>>
    /\ UNCHANGED extvars

CallCreateTransaction(utxo_txid, utxo_vout, utxo_amount, op_return_data_list) ==
    LET o == create_transaction(builder, utxo_txid, utxo_vout, utxo_amount,
                                op_return_data_list)
    IN  /\ pc = "ready"
        /\ method' = "create_transaction"
        /\ args' = [utxo_txid |-> utxo_txid, utxo_vout |-> utxo_vout,
                    utxo_amount |-> utxo_amount,
                    op_return_data_list |-> op_return_data_list]
        /\ ret' = o.ret
        /\ frame' = o.frame
        /\ stdout' = stdout \o o.printed
        /\ pc' = IF o.ret.raised THEN "raised" ELSE "returned"
        /\ UNCHANGED builder
        /\ UNCHANGED extvars

Next ==
    \/ \E data \in EncodeData : CallCreateOpReturnScript(data)
    \/ \E utxo_txid \in Txids, utxo_vout \in Vouts, utxo_amount \in Amounts,
          op_return_data_list \in DataLists :
           CallCreateTransaction(utxo_txid, utxo_vout, utxo_amount,
                                 op_return_data_list)

Spec == Init /\ [][Next]_vars

-----------------------------------------------------------------------------
(* Vocabulary of the properties *)

EncodeDone == method = "_create_op_return_script"
BuildDone == method = "create_transaction"
BuildReturned == BuildDone /\ pc = "returned"

\* number of payloads handed to create_transaction
NPayloads == Len(args.op_return_data_list)

RECURSIVE SumValues(_)
SumValues(outs) == IF outs = <<>> THEN 0 ELSE outs[1].value + SumValues(Tail(outs))

RECURSIVE SumPayloadTerms(_)
SumPayloadTerms(list) ==
    IF list = <<>> THEN 0 ELSE 10 + BLen(list[1]) + SumPayloadTerms(Tail(list))

HasOversized(list) == \E i \in 1..Len(list) : BLen(list[i]) > 65535

TooLarge == "ValueError: OP_RETURN data too large"

-----------------------------------------------------------------------------
(* C1..C10 *)

\* C1: for every payload of length L in 0..65535 the encoder returns the bytes
\* of the push table: 6a L data for L <= 75 (length 2+L), 6a 4c L data for
\* 76 <= L <= 255, 6a 4d lo hi data (L little-endian) for 256 <= L <= 65535.
C1_PushTable ==
    (EncodeDone /\ BLen(args.data) <= 65535) =>
        /\ pc = "returned"
        /\ ~ret.raised
        /\ LET L == BLen(args.data)
               s == ret.value
           IN  /\ BAt(s, 1) = 106
               /\ L <= 75 =>
                    /\ BLen(s) = 2 + L
                    /\ BAt(s, 2) = L
                    /\ BDrop(s, 2) = args.data
               /\ (76 <= L /\ L <= 255) =>
                    /\ BLen(s) = 3 + L
                    /\ BAt(s, 2) = 76
                    /\ BAt(s, 3) = L
                    /\ BDrop(s, 3) = args.data
               /\ 256 <= L =>
                    /\ BLen(s) = 4 + L
                    /\ BAt(s, 2) = 77
                    /\ BAt(s, 3) = L % 256
                    /\ BAt(s, 4) = L \div 256
                    /\ BDrop(s, 4) = args.data

\* C1 witness: a 90-byte payload was encoded as 6a 4c 5a ...
C1_Witness ==
    /\ EncodeDone
    /\ pc = "returned"
    /\ BLen(args.data) = 90
    /\ BAt(ret.value, 1) = 106 /\ BAt(ret.value, 2) = 76 /\ BAt(ret.value, 3) = 90

\* C2: the values of the outputs of a returned transaction plus the fee paid
\* (the computed fee with a change output, the whole input value without)
\* equal the input value.
C2_ValueConserved ==
    BuildReturned =>
        LET outs == ret.value.vout
            fee_paid == IF Len(outs) > NPayloads THEN frame.fee ELSE args.utxo_amount
        IN  SumValues(outs) + fee_paid = args.utxo_amount

\* C2 witness: 100000 sats, fee 264, a change output of 99736
C2_Witness ==
    /\ BuildReturned
    /\ args.utxo_amount = 100000
    /\ frame.fee = 264
    /\ Len(ret.value.vout) = NPayloads + 1
    /\ ret.value.vout[NPayloads + 1].value = 99736

\* C3 (as claimed): when the input value is below the computed fee,
\* create_transaction raises and returns no transaction.
C3_InsufficientFunds ==
    (BuildDone /\ frame.fee_computed /\ args.utxo_amount < frame.fee) =>
        (pc = "raised" /\ ret.raised)

\* C4: when input value minus computed fee is below 546, the returned
\* transaction has exactly the N data outputs, no change output, and the whole
\* input value is the fee, as the printed warning reports.
C4_DustDropped ==
    (BuildDone /\ frame.fee_computed /\ args.utxo_amount - frame.fee < 546) =>
        /\ pc = "returned"
        /\ Len(ret.value.vout) = NPayloads
        /\ \A i \in 1..NPayloads :
              /\ ret.value.vout[i].value = 0
              /\ BAt(ret.value.vout[i].script_pubkey, 1) = 106
        /\ args.utxo_amount - SumValues(ret.value.vout) = args.utxo_amount
        /\ Len(stdout) = 2
        /\ stdout[2].values = <<args.utxo_amount, frame.fee>>

\* C4 witness: 600 sats, one 13-byte payload, 2 sat/vB: fee 264, one output
C4_Witness ==
    /\ BuildReturned
    /\ args.utxo_amount = 600
    /\ NPayloads = 1
    /\ BLen(args.op_return_data_list[1]) = 13
    /\ frame.fee = 264
    /\ Len(ret.value.vout) = 1
    /\ stdout[2].values[1] = 600

\* C5: when input value minus computed fee is at least 546 (546 included),
\* exactly one change output is appended, of value input minus fee, paying to
\* the witness-pubkey-hash script (00 14 hash160) of the wallet's public key.
C5_ChangeAppended ==
    (BuildDone /\ frame.fee_computed /\ args.utxo_amount - frame.fee >= 546) =>
        /\ pc = "returned"
        /\ Len(ret.value.vout) = NPayloads + 1
        /\ \A i \in 1..NPayloads : ret.value.vout[i].value = 0
        /\ LET change == ret.value.vout[NPayloads + 1]
           IN  /\ change.value = args.utxo_amount - frame.fee
               /\ BLen(change.script_pubkey) = 22
               /\ BAt(change.script_pubkey, 1) = 0
               /\ BAt(change.script_pubkey, 2) = 20
               /\ BDrop(change.script_pubkey, 2) = Hash160(builder.wallet.pub_key)

\* C5 witness: the change is exactly 546
C5_Witness ==
    /\ BuildReturned
    /\ args.utxo_amount - frame.fee = 546
    /\ Len(ret.value.vout) = NPayloads + 1
    /\ ret.value.vout[NPayloads + 1].value = 546

\* C6: in a returned transaction every output value is 0 (the data outputs)
\* or at least 546 (the change output); none is negative.
C6_NoDustOutput ==
    BuildReturned =>
        \A i \in 1..Len(ret.value.vout) :
            /\ ret.value.vout[i].value >= 0
            /\ ret.value.vout[i].value = 0 \/ ret.value.vout[i].value >= 546
            /\ i > NPayloads => ret.value.vout[i].value >= 546

\* C6 witness: the computed change was negative and a transaction came back
C6_Witness ==
    /\ BuildReturned
    /\ frame.change_amount < 0
    /\ NPayloads >= 1
    /\ Len(ret.value.vout) = NPayloads

\* C7: a payload longer than 65535 bytes makes the encoder raise its
\* too-large error and return no script; inside create_transaction, at any
\* position of the list, the call raises and returns no transaction (with that
\* error whenever the loop over the payloads is reached).
C7_TooLargeRejected ==
    /\ (EncodeDone /\ BLen(args.data) > 65535) =>
          (pc = "raised" /\ ret.raised /\ ret.exc = TooLarge /\ ret.value = <<>>)
    /\ (BuildDone /\ HasOversized(args.op_return_data_list)) =>
          /\ pc = "raised"
          /\ ret.raised
          /\ ret.value = <<>>
          /\ HexValid(args.utxo_txid) => ret.exc = TooLarge

\* C7 witness: the second of two payloads has 65536 bytes
C7_Witness ==
    /\ BuildDone
    /\ NPayloads = 2
    /\ BLen(args.op_return_data_list[1]) <= 65535
    /\ BLen(args.op_return_data_list[2]) = 65536
    /\ pc = "raised"
    /\ ret.exc = TooLarge

\* The fee rate times 10 + 68 + sum(10 + len(payload)) + 31, truncated
\* toward zero
TruncatedProduct ==
    LET vsize == 10 + 68 + SumPayloadTerms(args.op_return_data_list) + 31
        p == builder.fee_rate.num * vsize
        d == builder.fee_rate.den
    IN  IF p >= 0 THEN p \div d ELSE -((-p) \div d)

\* C8 (as claimed): the computed fee is the truncated product of the fee rate
\* and the estimated virtual size 10 + 68 + sum(10 + len) + 31.
C8_FeeIsTruncatedProduct ==
    (BuildDone /\ frame.fee_computed) => frame.fee = TruncatedProduct

\* C8 (amended): the estimated virtual size is 10 + 68 + sum(10 + len) + 31,
\* change output or not, and the computed fee is the truncated product of the
\* fee rate and that size, or 1 when the truncated product is below 1.
C8_FeeIsTruncatedProductOrOne ==
    (BuildDone /\ frame.fee_computed) =>
        /\ frame.estimated_vsize
             = 10 + 68 + SumPayloadTerms(args.op_return_data_list) + 31
        /\ frame.fee = IF TruncatedProduct < 1 THEN 1 ELSE TruncatedProduct

\* C8 witness: one 13-byte payload at 2 sat/vB, vsize 132, fee 264, and the
\* change output was dropped
C8_Witness ==
    /\ BuildReturned
    /\ NPayloads = 1
    /\ BLen(args.op_return_data_list[1]) = 13
    /\ builder.fee_rate = Float(2, 1)
    /\ frame.estimated_vsize = 132
    /\ frame.fee = 264
    /\ Len(ret.value.vout) = 1

\* C9: whatever the fee rate (zero, a fraction whose product truncates to 0,
\* negative), the computed fee is at least 1.
C9_FeeAtLeastOne ==
    (BuildDone /\ frame.fee_computed) => frame.fee >= 1

\* C9 witness: at 1/256 sat/vB the product truncates to 0 and the fee is 1
C9_Witness ==
    /\ BuildDone
    /\ frame.fee_computed
    /\ builder.fee_rate = Float(1, 256)
    /\ TruncatedProduct = 0
    /\ frame.fee = 1

\* C10: a returned transaction has version 2, locktime 0, one input with the
\* given txid and vout, then the N data outputs of value 0, the i-th carrying
\* the encoding of the i-th payload, then at most one change output, last.
C10_Layout ==
    BuildReturned =>
        LET tx == ret.value
            h == args.utxo_txid
        IN  /\ tx.version = 2
            /\ tx.locktime = 0
            /\ Len(tx.vin) = 1
            /\ BLen(tx.vin[1].txid) = Len(h) \div 2
            /\ \A j \in 1..(Len(h) \div 2) :
                  BAt(tx.vin[1].txid, j) = 16 * h[2 * j - 1] + h[2 * j]
            /\ tx.vin[1].vout = args.utxo_vout
            /\ Len(tx.vout) \in {NPayloads, NPayloads + 1}
            /\ \A i \in 1..NPayloads :
                  /\ tx.vout[i].value = 0
                  /\ BAt(tx.vout[i].script_pubkey, 1) = 106
                  /\ Returned(tx.vout[i].script_pubkey)
                       = create_op_return_script(args.op_return_data_list[i])
            /\ Len(tx.vout) = NPayloads + 1 =>
                  /\ tx.vout[NPayloads + 1].value > 0
                  /\ BAt(tx.vout[NPayloads + 1].script_pubkey, 1) = 0

\* C10 witness: two different payloads and a change output, three outputs
C10_Witness ==
    /\ BuildReturned
    /\ NPayloads = 2
    /\ args.op_return_data_list[1] # args.op_return_data_list[2]
    /\ Len(ret.value.vout) = 3
    /\ ret.value.vout[3].value > 0

-----------------------------------------------------------------------------
(* More of Python bytes *)

Max(a, b) == IF a >= b THEN a ELSE b

\* b[:k]
RECURSIVE BTake(_, _)
BTake(b, k) ==
    IF k <= 0 \/ b = <<>> THEN BEmpty
    ELSE IF b[1][1] <= k THEN BCat(<<b[1]>>, BTake(Tail(b), k - b[1][1]))
    ELSE << <<k, b[1][2]>> >>

\* b[i:j] for 0 <= i; the slice stops at the end of b
BSlice(b, i, j) == BTake(BDrop(b, i), Max(j - i, 0))

\* sub in b
BContains(b, sub) ==
    \E k \in 0..Max(BLen(b) - BLen(sub), 0) : BSlice(b, k, k + BLen(sub)) = sub

-----------------------------------------------------------------------------
(* embit: keys, PSBT, finalizer.  Objects live in a heap, a sequence of     *)
(* transactions; a reference is an index into it and None is 0.             *)

None == 0

\* priv_key.get_public_key()
PublicKeyOf(priv_key) == (CHOOSE w \in Wallets : w.priv_key = priv_key).pub_key

\* pub.sec(): the 33-byte compressed public key
Sec(pub_key) == BCat(BytesOf(<<2>>), << <<32, pub_key>> >>)

\* An input scope of a fresh PSBT
EmptyInputScope ==
    [has_witness_utxo |-> FALSE, witness_utxo |-> TransactionOutput(0, BEmpty),
     partial_sigs |-> <<>>]

\* PSBT(tx): one input scope per input of the transaction
PSBT(heap, tx) ==
    [tx |-> tx, inputs |-> [i \in 1..Len(heap[tx].vin) |-> EmptyInputScope]]

NoPsbt == [tx |-> None, inputs |-> <<>>]

\* psbt.inputs[0].witness_utxo = prev_output
SetWitnessUtxo(psbt, prev_output) ==
    [psbt EXCEPT !.inputs[1].has_witness_utxo = TRUE,
                 !.inputs[1].witness_utxo = prev_output]

\* The segwit signature hash of input i: it commits to the transaction, the
\* spent output's script and its value
SighashSegwit(t, i, script_pubkey, value) ==
    [version |-> t.version, locktime |-> t.locktime,
     outpoints |-> [k \in 1..Len(t.vin) |-> <<t.vin[k].txid, t.vin[k].vout>>],
     vout |-> t.vout, input |-> i, script |-> script_pubkey, value |-> value]

\* root.sign(h)
Signature(priv_key, h) == [signed_by |-> priv_key, hash |-> h]

\* psbt.sign_with(priv_key): an input is signed when its spent script holds the
\* key's public key or public key hash
SignInput(t, inp, i, priv_key) ==
    IF /\ inp.has_witness_utxo
       /\ \/ BContains(inp.witness_utxo.script_pubkey, Sec(PublicKeyOf(priv_key)))
          \/ BContains(inp.witness_utxo.script_pubkey, Hash160(PublicKeyOf(priv_key)))
    THEN [inp EXCEPT !.partial_sigs =
              Append(@, [pub |-> PublicKeyOf(priv_key),
                         sig |-> Signature(priv_key,
                                           SighashSegwit(t, i,
                                                         inp.witness_utxo.script_pubkey,
                                                         inp.witness_utxo.value))])]
    ELSE inp

sign_with(heap, psbt, priv_key) ==
    [psbt EXCEPT !.inputs =
        [i \in 1..Len(psbt.inputs) |-> SignInput(heap[psbt.tx], psbt.inputs[i], i, priv_key)]]

\* The witness of a signed pay-to-witness-pubkey-hash input
WitnessOf(inp) == <<inp.partial_sigs[1].sig, Sec(inp.partial_sigs[1].pub)>>

\* The copy of the transaction with the witness of every signed input
FinalCopy(t, psbt) ==
    [t EXCEPT !.vin =
        [i \in 1..Len(t.vin) |->
            IF psbt.inputs[i].partial_sigs # <<>>
            THEN [t.vin[i] EXCEPT !.witness = WitnessOf(psbt.inputs[i])]
            ELSE t.vin[i]]]

AllSigned(psbt) == \A i \in 1..Len(psbt.inputs) : psbt.inputs[i].partial_sigs # <<>>

finalize_psbt_ignore_missing(heap, psbt) ==
    [heap |-> Append(heap, FinalCopy(heap[psbt.tx], psbt)), ref |-> Len(heap) + 1]

finalize_psbt_in_place(heap, psbt) ==
    IF AllSigned(psbt)
    THEN [heap |-> [heap EXCEPT ![psbt.tx] = FinalCopy(heap[psbt.tx], psbt)],
          ref |-> psbt.tx]
    ELSE [heap |-> heap, ref |-> None]

\* finalize_psbt(psbt): a new transaction object carrying the witnesses, or
\* None when an input has no signature
finalize_psbt(heap, psbt) ==
    IF AllSigned(psbt)
    THEN [heap |-> Append(heap, FinalCopy(heap[psbt.tx], psbt)), ref |-> Len(heap) + 1]
    ELSE [heap |-> heap, ref |-> None]

-----------------------------------------------------------------------------
(* OPReturnTransactionBuilder.sign_transaction, statement by statement *)

MissingSignatures ==
    "RuntimeError: Failed to finalize PSBT - transaction may be missing signatures"

\* if final_tx is None: raise RuntimeError(...); return final_tx
SignResult(final_tx) ==
    IF final_tx = None THEN Raised(MissingSignatures) ELSE Returned(final_tx)

\* The whole call: the heap after it and what it returns or raises
sign_transaction(self, heap, tx, prev_output) ==
    LET psbt == sign_with(heap, SetWitnessUtxo(PSBT(heap, tx), prev_output),
                          self.wallet.priv_key)
        final == finalize_psbt(heap, psbt)
    IN  [heap |-> final.heap, ret |-> SignResult(final.ref)]

\* sign_transaction entered with the unsigned transaction t as object 1
SignerStart(t, prev_output) ==
    [pc |-> "start", heap |-> <<t>>, tx |-> 1, given |-> t,
     prev_output |-> prev_output, psbt |-> NoPsbt, final_tx |-> None,
     ret |-> NoReturn]

SignBuilders == {BuilderInit(w, Float(2, 1)) : w \in Wallets}

SignBuildArgs ==
    {[utxo_txid |-> <<10, 11, 12, 13>>, utxo_vout |-> v, utxo_amount |-> a,
      op_return_data_list |-> l] :
        v \in Vouts, a \in {600, 100000},
        l \in {<<Payload(13, "ramp")>>, <<Payload(13, "a"), Payload(76, "ramp")>>}}

\* The output handed to the signer: its value and whose key it pays
PrevOutputs ==
    {TransactionOutput(v, p2wpkh(w.pub_key)) : v \in {600, 100000}, w \in Wallets}

\* A builder, the transaction create_transaction returned, and the call of
\* sign_transaction on it
SignInit ==
    /\ builder \in SignBuilders
    /\ pc = "returned"
    /\ method = "create_transaction"
    /\ args \in SignBuildArgs
    /\ ret = create_transaction(builder, args.utxo_txid, args.utxo_vout,
                                args.utxo_amount, args.op_return_data_list).ret
    /\ ~ret.raised
    /\ frame = create_transaction(builder, args.utxo_txid, args.utxo_vout,
                                  args.utxo_amount, args.op_return_data_list).frame
    /\ stdout = create_transaction(builder, args.utxo_txid, args.utxo_vout,
                                   args.utxo_amount, args.op_return_data_list).printed
    /\ signer \in {SignerStart(ret.value, po) : po \in PrevOutputs}
    /\ calls = NoCalls
    /\ decoded = NoDecoded
    /\ prog = NoProg

SignFrame == UNCHANGED <<corevars, calls, decoded, prog>>

\* psbt = PSBT(tx)
SignCreatePsbt ==
    /\ signer.pc = "start"
    /\ signer' = [signer EXCEPT !.pc = "psbt_created",
                                !.psbt = PSBT(signer.heap, signer.tx)]
    /\ SignFrame

\* psbt.inputs[0].witness_utxo = prev_output
SignSetWitnessUtxo ==
    /\ signer.pc = "psbt_created"
    /\ signer' = [signer EXCEPT !.pc = "utxo_set",
                                !.psbt = SetWitnessUtxo(@, signer.prev_output)]
    /\ SignFrame

SignSignWith_early ==
    /\ signer.pc = "psbt_created"
    /\ signer' = [signer EXCEPT !.pc = "signed",
                                !.psbt = sign_with(signer.heap, @,
                                                   builder.wallet.priv_key)]
    /\ SignFrame

\* psbt.sign_with(self.wallet.priv_key)
SignSignWith ==
    /\ signer.pc = "utxo_set"
    /\ signer' = [signer EXCEPT !.pc = "signed",
                                !.psbt = sign_with(signer.heap, @,
                                                   builder.wallet.priv_key)]
    /\ SignFrame

\* final_tx = finalize_psbt(psbt)
SignFinalize ==
    /\ signer.pc = "signed"
    /\ LET final == finalize_psbt(signer.heap, signer.psbt)
       IN  signer' = [signer EXCEPT !.pc = "finalize_returned",
                                    !.heap = final.heap,
                                    !.final_tx = final.ref]
    /\ SignFrame

\* if final_tx is None: raise ...; return final_tx
SignReturn ==
    /\ signer.pc = "finalize_returned"
    /\ signer' = [signer EXCEPT
                     !.pc = IF SignResult(signer.final_tx).raised
                            THEN "raised" ELSE "returned",
                     !.ret = SignResult(signer.final_tx)]
    /\ SignFrame

SignNext ==
    \/ SignCreatePsbt
    \/ SignSetWitnessUtxo
    \/ SignSignWith
    \/ SignFinalize
    \/ SignReturn

SpecSign == SignInit /\ [][SignNext]_vars

-----------------------------------------------------------------------------
(* C11..C14: sign_transaction *)

SignEnded == signer.pc \in {"returned", "raised"}

\* The signing step ran and attached no signature to the input
NoSignatureAttached ==
    /\ signer.pc \in {"signed", "finalize_returned", "returned", "raised"}
    /\ signer.psbt.inputs[1].partial_sigs = <<>>

\* The protocol state of the call
Stage ==
    CASE signer.pc = "start" -> "Unsigned"
      [] signer.pc \in {"psbt_created", "utxo_set"} -> "Wrapped"
      [] signer.pc = "signed" -> "Signed"
      [] signer.pc = "finalize_returned" ->
            IF signer.final_tx = None THEN "Signed" ELSE "Finalized"
      [] signer.pc = "returned" -> "Finalized"
      [] signer.pc = "raised" -> "Failed"
      [] OTHER -> "None"

Rank ==
    CASE Stage = "Unsigned" -> 0
      [] Stage = "Wrapped" -> 1
      [] Stage = "Signed" -> 2
      [] Stage = "Finalized" -> 3
      [] OTHER -> 4

\* C11: when the signing step attached no signature, finalize yields nothing
\* and sign_transaction raises the missing-signature error and returns no
\* transaction; a transaction is returned only with a complete witness on its
\* input.
C11_AllOrNothing ==
    /\ (NoSignatureAttached /\ signer.pc # "signed") => signer.final_tx = None
    /\ (NoSignatureAttached /\ SignEnded) =>
          /\ signer.pc = "raised"
          /\ signer.ret.raised
          /\ signer.ret.exc = MissingSignatures
    /\ signer.pc = "raised" => signer.ret.value = <<>>
    /\ signer.pc = "returned" =>
          /\ ~signer.ret.raised
          /\ signer.ret.value # None
          /\ \A i \in 1..Len(signer.heap[signer.ret.value].vin) :
                Len(signer.heap[signer.ret.value].vin[i].witness) = 2

\* C11 witness: the previous output pays another key, nothing was signed and
\* the call raised
C11_Witness ==
    /\ signer.pc = "raised"
    /\ signer.psbt.inputs[1].has_witness_utxo
    /\ signer.psbt.inputs[1].partial_sigs = <<>>
    /\ signer.ret.exc = MissingSignatures

\* C12: a call moves Unsigned, Wrapped, Signed, Finalized in that order, one
\* step at a time and never back; the previous output (value and script) is on
\* the wrapper's input before the signing step runs; the call ends Finalized
\* with a transaction returned or failed with none.
C12_StateMachine ==
    /\ [](/\ Stage \in {"Unsigned", "Wrapped", "Signed", "Finalized", "Failed"}
          /\ Stage \in {"Signed", "Finalized"} =>
                /\ signer.psbt.inputs[1].has_witness_utxo
                /\ signer.psbt.inputs[1].witness_utxo = signer.prev_output
          /\ Stage = "Unsigned" => signer.psbt = NoPsbt
          /\ signer.pc = "returned" => (Stage = "Finalized" /\ ~signer.ret.raised)
          /\ signer.pc = "raised" => (Stage = "Failed" /\ signer.ret.value = <<>>))
    /\ [][\/ Stage' = Stage
          \/ (Rank <= 2 /\ Rank' = Rank + 1)
          \/ (Stage = "Signed" /\ Stage' = "Failed")]_vars

\* C12 witness: a call that went all the way and returned
C12_Witness ==
    /\ signer.pc = "returned"
    /\ Stage = "Finalized"
    /\ signer.psbt.inputs[1].witness_utxo = signer.prev_output
    /\ signer.psbt.inputs[1].partial_sigs # <<>>

\* C13 (as claimed): when the previous output's value differs from the value
\* the transaction was built with, the call fails and no signed transaction is
\* produced.
C13_ValueMismatchSurfaced ==
    (SignEnded /\ signer.prev_output.value # args.utxo_amount) =>
        (signer.pc = "raised" /\ signer.ret.raised)

\* C14: the unsigned transaction object is never changed by the signer, its
\* input keeps an empty witness, and the transaction returned is another
\* object.
C14_UnsignedUntouched ==
    signer.pc # "idle" =>
        /\ signer.heap[signer.tx] = signer.given
        /\ signer.heap[signer.tx] = ret.value
        /\ \A i \in 1..Len(signer.heap[signer.tx].vin) :
              signer.heap[signer.tx].vin[i].witness = <<>>
        /\ signer.pc = "returned" => signer.ret.value # signer.tx

\* C14 witness: a signed transaction was returned, with a witness the unsigned
\* one does not have
C14_Witness ==
    /\ signer.pc = "returned"
    /\ signer.heap[signer.ret.value].vin[1].witness # <<>>
    /\ signer.heap[signer.tx].vin[1].witness = <<>>
    /\ signer.heap[signer.tx].vout = signer.heap[signer.ret.value].vout

-----------------------------------------------------------------------------
(* Repeated calls of create_transaction on one builder *)

MaxCalls == 3

\* self after a call: create_transaction assigns no attribute of self
SelfAfterCreateTransaction_cached(self, o) ==
    IF o.frame.fee_computed THEN [self EXCEPT !.fee_rate = Float(o.frame.fee, 1)]
    ELSE self

SelfAfterCreateTransaction(self, o) == self

RepeatBuilders == {BuilderInit(w, r) : w \in Wallets, r \in {Float(2, 1), Float(1, 2)}}

\* Calls that return and calls that raise (a 65536-byte payload)
RepeatArgs ==
    {[utxo_txid |-> <<10, 11, 12, 13>>, utxo_vout |-> 0, utxo_amount |-> a,
      op_return_data_list |-> l] :
        a \in {600, 100000},
        l \in {<<Payload(13, "ramp")>>, <<Payload(MaxPushData2 + 1, "ramp")>>}}

RepeatInit ==
    /\ builder \in RepeatBuilders
    /\ pc = "ready"
    /\ method = ""
    /\ args = NoArgs
    /\ ret = NoReturn
    /\ frame = NoFrame
    /\ stdout = <<>>
    /\ ExtInit

RepeatCreateTransaction(a) ==
    LET o == create_transaction(builder, a.utxo_txid, a.utxo_vout, a.utxo_amount,
                                a.op_return_data_list)
    IN  /\ Len(calls) < MaxCalls
        /\ method' = "create_transaction"
        /\ args' = a
        /\ ret' = o.ret
        /\ frame' = o.frame
        /\ stdout' = stdout \o o.printed
        /\ pc' = IF o.ret.raised THEN "raised" ELSE "returned"
        /\ builder' = SelfAfterCreateTransaction(builder, o)
        /\ calls' = Append(calls, [self_before |-> builder, args |-> a, ret |-> o.ret,
                                   self_after |-> builder'])
        /\ UNCHANGED <<signer, decoded, prog>>

RepeatNext == \E a \in RepeatArgs : RepeatCreateTransaction(a)

SpecRepeat == RepeatInit /\ [][RepeatNext]_vars

-----------------------------------------------------------------------------
(* main, --history: decoding the OP_RETURN data of a script *)

HistOpReturn == 106
HistMaxDirect == 75
HistPushData1 == 76
HistPushData2 == 77

Decoded(data) == [ran |-> TRUE, done |-> TRUE, data |-> data, data_len |-> BLen(data)]
NotDecoded == [ran |-> TRUE, done |-> FALSE, data |-> <<>>, data_len |-> 0]

\* int.from_bytes(b, "little") for at most two bytes
FromBytesLE(b) ==
    IF BLen(b) = 0 THEN 0
    ELSE IF BLen(b) = 1 THEN BAt(b, 1)
    ELSE BAt(b, 1) + 256 * BAt(b, 2)

HistoryDecode_off_by_one(script_bytes) ==
    IF ~(BLen(script_bytes) >= 1 /\ BAt(script_bytes, 1) = HistOpReturn) THEN NotDecoded
    ELSE IF ~(BLen(script_bytes) > 1) THEN NotDecoded
    ELSE IF BAt(script_bytes, 2) <= HistMaxDirect
    THEN Decoded(BSlice(script_bytes, 2, 2 + BAt(script_bytes, 2)))
    ELSE IF BAt(script_bytes, 2) = HistPushData1
    THEN IF BLen(script_bytes) < 3 THEN NotDecoded
         ELSE Decoded(BSlice(script_bytes, 2, 2 + BAt(script_bytes, 3)))
    ELSE IF BAt(script_bytes, 2) = HistPushData2
    THEN Decoded(BSlice(script_bytes, 4,
                        4 + FromBytesLE(BSlice(script_bytes, 2, 4))))
    ELSE Decoded(BSlice(script_bytes, 2, 2 + (BLen(script_bytes) - 2)))

\* The script arrives as a hex string; the model starts from its bytes.
\* script_bytes[2] on a two-byte script raises IndexError, which the display
\* catches ("could not decode")
HistoryDecode(script_bytes) ==
    IF ~(BLen(script_bytes) >= 1 /\ BAt(script_bytes, 1) = HistOpReturn) THEN NotDecoded
    ELSE IF ~(BLen(script_bytes) > 1) THEN NotDecoded
    ELSE IF BAt(script_bytes, 2) <= HistMaxDirect
    THEN Decoded(BSlice(script_bytes, 2, 2 + BAt(script_bytes, 2)))
    ELSE IF BAt(script_bytes, 2) = HistPushData1
    THEN IF BLen(script_bytes) < 3 THEN NotDecoded
         ELSE Decoded(BSlice(script_bytes, 3, 3 + BAt(script_bytes, 3)))
    ELSE IF BAt(script_bytes, 2) = HistPushData2
    THEN Decoded(BSlice(script_bytes, 4,
                        4 + FromBytesLE(BSlice(script_bytes, 2, 4))))
    ELSE Decoded(BSlice(script_bytes, 2, 2 + (BLen(script_bytes) - 2)))

HistInit ==
    /\ builder \in SignBuilders
    /\ pc = "ready"
    /\ method = ""
    /\ args = NoArgs
    /\ ret = NoReturn
    /\ frame = NoFrame
    /\ stdout = <<>>
    /\ ExtInit

\* The history display decodes a script the encoder produced
HistoryDecodeScript ==
    /\ method = "_create_op_return_script"
    /\ pc = "returned"
    /\ ~decoded.done
    /\ decoded' = HistoryDecode(ret.value)
    /\ UNCHANGED <<corevars, signer, calls, prog>>

HistNext ==
    \/ \E data \in EncodeData : CallCreateOpReturnScript(data)
    \/ HistoryDecodeScript

SpecHistory == HistInit /\ [][HistNext]_vars

\* C18: for every payload of length 0..65535, decoding the encoder's script as
\* the history display does gives back the payload's bytes and its length.
C18_DecodeInvertsEncode ==
    /\ (method = "_create_op_return_script" /\ pc = "returned" /\ decoded.done) =>
          /\ decoded.data = args.data
          /\ decoded.data_len = BLen(args.data)
    /\ (method = "_create_op_return_script" /\ pc = "returned"
          /\ "ran" \in DOMAIN decoded) => decoded.done

\* C18 witness: 65535 bytes went through OP_PUSHDATA2 and came back
C18_Witness ==
    /\ method = "_create_op_return_script"
    /\ decoded.done
    /\ BLen(args.data) = 65535
    /\ BAt(ret.value, 2) = 77
    /\ decoded.data = args.data

-----------------------------------------------------------------------------
(* main: one run of the program without --history *)

RelayPolicySize == 80
ReasonableSize == 10000

\* tx.to_string(): the serialization, in segwit layout (marker, flag and
\* witnesses) when an input carries a witness
HasWitness(t) == \E i \in 1..Len(t.vin) : t.vin[i].witness # <<>>

to_string(t) ==
    <<t.version,
      IF HasWitness(t) THEN <<0, 1>> ELSE <<>>,
      [i \in 1..Len(t.vin) |-> <<t.vin[i].txid, t.vin[i].vout>>],
      t.vout,
      IF HasWitness(t) THEN [i \in 1..Len(t.vin) |-> t.vin[i].witness] ELSE <<>>,
      t.locktime>>

\* Events of a run, in program order
Event(op, body) == [op |-> op, body |-> body]
Net(what) == Event("net", <<what>>)
Broadcast(via, url, body) == Event("broadcast", <<via, url, body>>)
CallOf(name) == Event("call", <<name>>)
ReturnOf(name) == Event("return", <<name>>)
RaiseOf(name) == Event("raise", <<name>>)
Prompt(answer) == Event("input", <<answer>>)

NoIndex == [given |-> FALSE, value |-> 0]
Index(i) == [given |-> TRUE, value |-> i]

WalletOf(network) == CHOOSE w \in Wallets : w.network = network
OtherWalletOf(network) == CHOOSE w \in Wallets : w.network # network

\* max(len(d) for d in op_return_data_list)
RECURSIVE MaxDataSize(_)
MaxDataSize(list) ==
    IF Len(list) = 1 THEN BLen(list[1])
    ELSE Max(BLen(list[1]), MaxDataSize(Tail(list)))

\* str.lower() on the answers the model types
Lower(str) == IF str = "YES" THEN "yes" ELSE str

\* max_data_size > 80 and not args.allow_large_opreturn
RelayPolicyRejects_flagless(max_data_size, allow_large_opreturn) ==
    max_data_size > RelayPolicySize

RelayPolicyRejects(max_data_size, allow_large_opreturn) ==
    max_data_size > RelayPolicySize /\ ~allow_large_opreturn

\* What is logged around builder.create_transaction(...)
CreateEvents_fetching(r) ==
    <<CallOf("create_transaction"), Net("prev_tx"),
      IF r.raised THEN RaiseOf("create_transaction") ELSE ReturnOf("create_transaction")>>

CreateEvents(r) ==
    <<CallOf("create_transaction"),
      IF r.raised THEN RaiseOf("create_transaction") ELSE ReturnOf("create_transaction")>>

SignEvents(r) ==
    <<CallOf("sign_transaction"),
      IF r.raised THEN RaiseOf("sign_transaction") ELSE ReturnOf("sign_transaction")>>

\* tx_hex = final_tx.to_string()
TxHex_unsigned(heap, tx, final_tx) == to_string(heap[tx])

TxHex(heap, tx, final_tx) == to_string(heap[final_tx])

\* if not args.allow_large_opreturn or max_data_size <= 80
AsksMainnetConfirmation(allow_large_opreturn, max_data_size) ==
    ~allow_large_opreturn \/ max_data_size <= RelayPolicySize

RpcModes ==
    {[rpc_url |-> u, rpc_user |-> n, rpc_password |-> p] :
        <<u, n, p>> \in {<<FALSE, FALSE, FALSE>>, <<TRUE, FALSE, FALSE>>,
                         <<FALSE, TRUE, TRUE>>, <<FALSE, TRUE, FALSE>>}}

MainData ==
    {<<>>, <<Payload(RelayPolicySize, "ramp")>>, <<Payload(RelayPolicySize + 1, "ramp")>>,
     <<Payload(ReasonableSize + 1, "ramp")>>,
     <<Payload(13, "ramp"), Payload(RelayPolicySize + 1, "ramp")>>}

MainArgs ==
    {[network |-> n, broadcast |-> b, rpc |-> r, rpc_only |-> o,
      allow_large_opreturn |-> l, check_balance |-> c, data |-> d,
      utxo_index |-> x, fee_rate |-> f] :
        n \in {"test", "main"}, b \in BOOLEAN, r \in RpcModes, o \in BOOLEAN,
        l \in BOOLEAN, c \in BOOLEAN, d \in MainData,
        x \in {NoIndex, Index(1), Index(2), Index(-1), Index(-3)}, f \in {Float(2, 1), NaN}}

\* What the network answers
UtxoAnswers ==
    {<<>>,
     <<[txid |-> <<10, 11, 12, 13>>, vout |-> 0, value |-> 100000],
       [txid |-> <<10, 11, 12, 13>>, vout |-> 1, value |-> 600]>>}

NoPrevTx == [found |-> FALSE, vout |-> <<>>]

PrevTxAnswers(network) ==
    {NoPrevTx,
     [found |-> TRUE,
      vout |-> <<TransactionOutput(100000, p2wpkh(WalletOf(network).pub_key)),
                 TransactionOutput(600, p2wpkh(WalletOf(network).pub_key))>>],
     [found |-> TRUE,
      vout |-> <<TransactionOutput(100000, p2wpkh(OtherWalletOf(network).pub_key)),
                 TransactionOutput(600, p2wpkh(OtherWalletOf(network).pub_key))>>],
     [found |-> TRUE,
      vout |-> <<TransactionOutput(100000, p2wpkh(WalletOf(network).pub_key))>>]}

Answers == {"yes", "YES", "no", ""}
Responses == {"200", "400", "RequestException"}

UseRpc(a) == a.rpc.rpc_url \/ (a.rpc.rpc_user /\ a.rpc.rpc_password)

NoUtxo == [txid |-> <<>>, vout |-> 0, value |-> 0]

ProgStart(a) ==
    [pc |-> "start", args |-> a, utxos |-> <<>>, selected_utxo |-> NoUtxo,
     prev_tx |-> NoPrevTx, max_data_size |-> 0, heap |-> <<>>, tx |-> None,
     final_tx |-> None, tx_hex |-> <<>>, trace |-> <<>>, out |-> <<>>,
     builder_out |-> <<>>, ending |-> ""]

MainInit ==
    /\ \E a \in MainArgs :
          /\ prog = ProgStart(a)
          /\ builder = BuilderInit(WalletOf(a.network), a.fee_rate)
    /\ pc = "main"
    /\ method = ""
    /\ args = NoArgs
    /\ ret = NoReturn
    /\ frame = NoFrame
    /\ stdout = <<>>
    /\ signer = NoSigner
    /\ calls = NoCalls
    /\ decoded = NoDecoded

MainFrame == UNCHANGED <<corevars, signer, calls, decoded>>

\* return from main, or an uncaught exception
Exit(p, why) == [p EXCEPT !.pc = "exit", !.ending = why]

\* if use_rpc and not rpc_only: check_txindex_enabled()
MainCheckTxindex(enabled) ==
    /\ prog.pc = "start"
    /\ prog' =
          IF UseRpc(prog.args) /\ ~prog.args.rpc_only
          THEN LET p == [prog EXCEPT !.trace = Append(@, Net("txindex"))]
               IN  IF enabled THEN [p EXCEPT !.pc = "fetch_utxos"]
                   ELSE Exit([p EXCEPT !.out = Append(@, "txindex_warning")], "txindex")
          ELSE [prog EXCEPT !.pc = "fetch_utxos"]
    /\ MainFrame

\* utxos[args.utxo_index] with Python's negative indices
SelectUtxo(p) ==
    LET x == p.args.utxo_index
        n == Len(p.utxos)
    IN  IF ~x.given THEN [p EXCEPT !.selected_utxo = p.utxos[1], !.pc = "fetch_prev"]
        ELSE IF x.value >= n
        THEN Exit([p EXCEPT !.out = Append(@, "Invalid UTXO index")], "invalid_index")
        ELSE IF x.value >= 0
        THEN [p EXCEPT !.selected_utxo = p.utxos[x.value + 1], !.pc = "fetch_prev"]
        ELSE IF x.value >= -n
        THEN [p EXCEPT !.selected_utxo = p.utxos[n + x.value + 1], !.pc = "fetch_prev"]
        ELSE Exit(p, "IndexError")

\* utxos = utxo_mgr.fetch_utxos(address), then the checks up to the selection
MainFetchUtxos(answer) ==
    /\ prog.pc = "fetch_utxos"
    /\ prog' =
          LET p == [prog EXCEPT !.trace = Append(@, Net("utxos")), !.utxos = answer]
          IN  IF answer = <<>>
              THEN Exit([p EXCEPT !.out = Append(@, "No funds available")], "no_funds")
              ELSE IF p.args.check_balance
              THEN Exit([p EXCEPT !.out = Append(@, "Total balance")], "check_balance")
              ELSE IF p.args.data = <<>>
              THEN Exit([p EXCEPT !.out = Append(@, "Use --data")], "no_data")
              ELSE SelectUtxo(p)
    /\ MainFrame

\* prev_tx = utxo_mgr.fetch_transaction(selected_utxo["txid"])
MainFetchPrevTx(answer) ==
    /\ prog.pc = "fetch_prev"
    /\ prog' =
          LET p == [prog EXCEPT !.trace = Append(@, Net("prev_tx")), !.prev_tx = answer]
          IN  IF ~answer.found
              THEN Exit([p EXCEPT !.out = Append(@, "Failed to fetch previous transaction")],
                        "no_prev_tx")
              ELSE [p EXCEPT !.pc = "size_checks"]
    /\ MainFrame

\* The size checks before the transaction is built
MainSizeChecks ==
    /\ prog.pc = "size_checks"
    /\ prog' =
          LET m == MaxDataSize(prog.args.data)
              p0 == [prog EXCEPT !.max_data_size = m]
              p1 == IF Len(prog.args.data) > 1
                    THEN [p0 EXCEPT !.out = Append(@, "WARNING: multiple OP_RETURN outputs")]
                    ELSE p0
          IN  IF RelayPolicyRejects(m, prog.args.allow_large_opreturn)
              THEN Exit([p1 EXCEPT !.out = Append(@, "ERROR: exceed 80 bytes")], "relay_policy")
              ELSE LET p2 == IF m > RelayPolicySize
                             THEN [p1 EXCEPT !.out = Append(@, "WARNING: exceed 80 bytes")]
                             ELSE p1
                   IN  IF m > ReasonableSize
                       THEN Exit([p2 EXCEPT !.out = Append(@, "ERROR: data is too large")],
                                 "too_large")
                       ELSE [p2 EXCEPT !.pc = "create"]
    /\ MainFrame

\* tx = builder.create_transaction(...)
MainCreateTransaction ==
    /\ prog.pc = "create"
    /\ prog' =
          LET u == prog.selected_utxo
              o == create_transaction(builder, u.txid, u.vout, u.value, prog.args.data)
              p == [prog EXCEPT !.trace = @ \o CreateEvents(o.ret), !.builder_out = o.printed]
          IN  IF o.ret.raised THEN Exit(p, o.ret.exc)
              ELSE [p EXCEPT !.heap = <<o.ret.value>>, !.tx = 1, !.pc = "sign"]
    /\ MainFrame

\* final_tx = builder.sign_transaction(tx, ..., prev_tx.vout[selected_utxo["vout"]])
MainSignTransaction ==
    /\ prog.pc = "sign"
    /\ prog' =
          LET u == prog.selected_utxo
          IN  IF u.vout >= Len(prog.prev_tx.vout) THEN Exit(prog, "IndexError")
              ELSE LET r == sign_transaction(builder, prog.heap, prog.tx,
                                             prog.prev_tx.vout[u.vout + 1])
                       p == [prog EXCEPT !.trace = @ \o SignEvents(r.ret), !.heap = r.heap]
                   IN  IF r.ret.raised THEN Exit(p, r.ret.exc)
                       ELSE [p EXCEPT !.final_tx = r.ret.value, !.pc = "serialize"]
    /\ MainFrame

\* tx_hex = final_tx.to_string(), then the choice of the broadcast method
MainSerialize ==
    /\ prog.pc = "serialize"
    /\ prog' =
          LET a == prog.args
              p == [prog EXCEPT !.tx_hex = TxHex(prog.heap, prog.tx, prog.final_tx),
                                !.out = Append(@, "Transaction Hex")]
          IN  IF ~(a.broadcast \/ a.rpc.rpc_url \/ a.rpc.rpc_user)
              THEN Exit([p EXCEPT !.out = Append(@, "Broadcast options")], "not_requested")
              ELSE IF a.rpc.rpc_url \/ a.rpc.rpc_user
              THEN IF a.rpc.rpc_url THEN [p EXCEPT !.pc = "post_rpc"]
                   ELSE IF ~a.rpc.rpc_user \/ ~a.rpc.rpc_password
                   THEN Exit([p EXCEPT !.out = Append(@, "ERROR: RPC user and password required")],
                             "rpc_credentials")
                   ELSE [p EXCEPT !.pc = "post_rpc"]
              ELSE IF a.network = "test" THEN [p EXCEPT !.pc = "post_api"]
              ELSE IF AsksMainnetConfirmation(a.allow_large_opreturn, prog.max_data_size)
              THEN [p EXCEPT !.out = Append(@, "WARNING: This will broadcast to MAINNET"),
                             !.pc = "confirm"]
              ELSE [p EXCEPT !.pc = "post_api"]
    /\ MainFrame

\* confirm = input("Type 'yes' to confirm: ")
MainConfirm(answer) ==
    /\ prog.pc = "confirm"
    /\ prog' =
          LET p == [prog EXCEPT !.trace = Append(@, Prompt(answer))]
          IN  IF Lower(answer) # "yes"
              THEN Exit([p EXCEPT !.out = Append(@, "Broadcast cancelled")], "cancelled")
              ELSE [p EXCEPT !.pc = "post_api"]
    /\ MainFrame

BroadcastReport(response) ==
    IF response = "200" THEN "broadcast answered"
    ELSE IF response = "400" THEN "request failed"
    ELSE "Network error"

\* requests.post(rpc_url, json=rpc_payload, timeout=10)
MainPostRpc(response) ==
    /\ prog.pc = "post_rpc"
    /\ prog' = Exit([prog EXCEPT !.trace = Append(@, Broadcast("rpc", "rpc_url", prog.tx_hex)),
                                 !.out = Append(@, BroadcastReport(response))],
                    "broadcast")
    /\ MainFrame

BroadcastUrl(network) ==
    IF network = "test" THEN "https://mempool.space/testnet/api/tx"
    ELSE "https://mempool.space/api/tx"

\* requests.post(broadcast_url, data=tx_hex, timeout=10)
MainPostApi(response) ==
    /\ prog.pc = "post_api"
    /\ prog' = Exit([prog EXCEPT !.trace = Append(@, Broadcast("api",
                                                BroadcastUrl(prog.args.network), prog.tx_hex)),
                                 !.out = Append(@, BroadcastReport(response))],
                    "broadcast")
    /\ MainFrame

MainNext ==
    \/ \E enabled \in BOOLEAN : MainCheckTxindex(enabled)
    \/ \E answer \in UtxoAnswers : MainFetchUtxos(answer)
    \/ \E answer \in PrevTxAnswers(prog.args.network) : MainFetchPrevTx(answer)
    \/ MainSizeChecks
    \/ MainCreateTransaction
    \/ MainSignTransaction
    \/ MainSerialize
    \/ \E answer \in Answers : MainConfirm(answer)
    \/ \E response \in Responses : MainPostRpc(response)
    \/ \E response \in Responses : MainPostApi(response)

SpecMain == MainInit /\ [][MainNext]_vars

-----------------------------------------------------------------------------
(* Vocabulary of the claims about main *)

Trace == prog.trace
Steps == 1..Len(Trace)

IsFetch(e) == e.op = "net"
IsBroadcast(e) == e.op = "broadcast"
IsNetworkOperation(e) == IsFetch(e) \/ IsBroadcast(e)
IsCall(e) == e.op = "call"
IsCallOf(e, name) == e.op = "call" /\ e.body[1] = name
IsReturnOf(e, name) == e.op = "return" /\ e.body[1] = name
IsEndOf(e, name) == e.op \in {"return", "raise"} /\ e.body[1] = name

Printed(line) == \E i \in 1..Len(prog.out) : prog.out[i] = line

SizeChecked == prog.max_data_size > 0
CreateCalled == \E i \in Steps : IsCallOf(Trace[i], "create_transaction")
Built == prog.tx # None

\* The first outputs of the built transaction are the encodings of the payloads
PayloadsEncoded ==
    \A i \in 1..Len(prog.args.data) :
        prog.heap[prog.tx].vout[i].script_pubkey
            = create_op_return_script(prog.args.data[i]).value

\* C15 as stated: a payload above 80 bytes (and within the encoder's limit) is
\* flagged, and the run is never stopped because of its size.
C15_RelayPolicyNeverPrevents ==
    (SizeChecked /\ prog.max_data_size > RelayPolicySize
        /\ prog.max_data_size <= MaxPushData2) =>
        /\ Printed("WARNING: exceed 80 bytes")
        /\ prog.ending \notin {"relay_policy", "too_large"}

\* C15: a payload above 80 bytes stops the run before building unless
\* --allow-large-opreturn is given; with the flag it is flagged, and it is
\* accepted and encoded when no payload exceeds 10000 bytes, while a payload
\* above 10000 bytes stops the run before building.
C15_LargePayloadNeedsFlag ==
    (SizeChecked /\ prog.max_data_size > RelayPolicySize) =>
        /\ ~prog.args.allow_large_opreturn =>
              /\ prog.ending = "relay_policy"
              /\ Printed("ERROR: exceed 80 bytes")
              /\ ~CreateCalled
        /\ prog.args.allow_large_opreturn =>
              /\ Printed("WARNING: exceed 80 bytes")
              /\ prog.max_data_size > ReasonableSize =>
                    prog.ending = "too_large" /\ ~CreateCalled
              /\ prog.max_data_size <= ReasonableSize =>
                    /\ prog.ending \notin {"relay_policy", "too_large"}
                    /\ prog.pc \notin {"size_checks", "create"} => CreateCalled
                    /\ Built => PayloadsEncoded

\* C15 witness: an 81-byte payload was flagged, accepted and encoded
C15_Witness ==
    /\ prog.args.allow_large_opreturn
    /\ prog.max_data_size = 81
    /\ Printed("WARNING: exceed 80 bytes")
    /\ Built
    /\ PayloadsEncoded
    /\ BLen(prog.heap[prog.tx].vout[Len(prog.args.data)].script_pubkey) = 84

\* C17 as stated: every network operation, broadcast included, comes before
\* create_transaction and sign_transaction are invoked.
C17_AllNetworkBeforeCore ==
    \A i, j \in Steps :
        (IsNetworkOperation(Trace[i]) /\ IsCall(Trace[j])) => i < j

\* C17: UTXO discovery and previous-transaction retrieval come before
\* create_transaction and sign_transaction are invoked, a broadcast comes only
\* after sign_transaction returned, and no network operation happens between
\* the start of create_transaction and the end of sign_transaction.
C17_FetchBeforeBroadcastAfter ==
    /\ \A i, j \in Steps : (IsFetch(Trace[i]) /\ IsCall(Trace[j])) => i < j
    /\ \A i \in Steps :
          IsBroadcast(Trace[i]) =>
              \E j \in Steps : j < i /\ IsReturnOf(Trace[j], "sign_transaction")
    /\ \A i, j, k \in Steps :
          (/\ IsCallOf(Trace[j], "create_transaction")
           /\ IsEndOf(Trace[k], "sign_transaction")
           /\ IsNetworkOperation(Trace[i])) => ~(j < i /\ i < k)
    /\ prog.pc = "sign" => ~(\E i \in Steps : IsBroadcast(Trace[i]))

\* C17 witness: a run that fetched, built, signed and then broadcast
C17_Witness ==
    /\ prog.ending = "broadcast"
    /\ \E i, j, k, l \in Steps :
          /\ i < j /\ j < k /\ k < l
          /\ Trace[i] = Net("prev_tx")
          /\ IsCallOf(Trace[j], "create_transaction")
          /\ IsReturnOf(Trace[k], "sign_transaction")
          /\ IsBroadcast(Trace[l])

IsMainnetPost(e) ==
    IsBroadcast(e) /\ e.body[1] = "api" /\ e.body[2] = BroadcastUrl("main")

\* C19: a POST to the mainnet mempool.space endpoint comes only after the
\* MAINNET warning was shown and the user typed 'yes'; after any other answer
\* there is no POST.
C19_MainnetPostOnlyAfterYes ==
    /\ \A i \in Steps :
          IsMainnetPost(Trace[i]) =>
              /\ Printed("WARNING: This will broadcast to MAINNET")
              /\ \E j \in Steps : j < i /\ Trace[j] = Prompt("yes")
    /\ \A j \in Steps :
          (Trace[j].op = "input" /\ Trace[j] # Prompt("yes")) =>
              ~(\E i \in Steps : IsBroadcast(Trace[i]))

Broadcasts == {i \in Steps : IsBroadcast(Trace[i])}

\* C20: a broadcast request comes only after sign_transaction returned a
\* finalized transaction and carries that transaction's serialization, not
\* the unsigned one's; a run issues at most one; a run in which an earlier
\* step did not complete issues none.
C20_BroadcastOnlyFinalized ==
    /\ \A i \in Broadcasts :
          /\ \E j \in Steps : j < i /\ IsReturnOf(Trace[j], "sign_transaction")
          /\ prog.final_tx # None
          /\ HasWitness(prog.heap[prog.final_tx])
          /\ Trace[i].body[3] = to_string(prog.heap[prog.final_tx])
          /\ Trace[i].body[3] # to_string(prog.heap[prog.tx])
    /\ Cardinality(Broadcasts) <= 1
    /\ (prog.pc = "exit" /\ prog.final_tx = None) => Broadcasts = {}
    /\ prog.ending \in {"no_funds", "no_prev_tx", "relay_policy", "too_large",
                        "IndexError", MissingSignatures} => Broadcasts = {}

\* C20 witness: the signed serialization went out through the node's RPC
C20_Witness ==
    /\ prog.ending = "broadcast"
    /\ \E i \in Broadcasts :
          /\ Trace[i].body[1] = "rpc"
          /\ Trace[i].body[3] = to_string(prog.heap[prog.final_tx])
          /\ Trace[i].body[3][2] = <<0, 1>>

-----------------------------------------------------------------------------
(* UTXO selection in main *)

Selecting ==
    /\ prog.pc \notin {"start", "fetch_utxos"}
    /\ prog.utxos # <<>>
    /\ ~prog.args.check_balance
    /\ prog.args.data # <<>>

IndexInRange ==
    /\ prog.args.utxo_index.given
    /\ 0 <= prog.args.utxo_index.value
    /\ prog.args.utxo_index.value < Len(prog.utxos)

SignCalled == \E i \in Steps : IsCallOf(Trace[i], "sign_transaction")

\* The previous output the signature commits to is output number vout of the
\* fetched transaction, and the built input spends the selected UTXO
SignedOverSelected ==
    LET u == prog.selected_utxo
        w == prog.heap[prog.final_tx].vin[1].witness
        o == prog.prev_tx.vout[u.vout + 1]
    IN  /\ prog.heap[prog.tx].vin[1].txid = FromHex(u.txid)
        /\ prog.heap[prog.tx].vin[1].vout = u.vout
        /\ w[1].hash.script = o.script_pubkey
        /\ w[1].hash.value = o.value

\* C21: the UTXO at --utxo-index is used only when 0 <= index < number of
\* fetched UTXOs and position 0 is used when no index is given; any other index
\* is rejected with 'Invalid UTXO index' and nothing is built or signed; the
\* previous output handed to the signer is output vout of the transaction
\* fetched for the selected UTXO.
C21_IndexSelection ==
    /\ Selecting =>
          IF ~prog.args.utxo_index.given
          THEN prog.selected_utxo = prog.utxos[1]
          ELSE IF IndexInRange
          THEN prog.selected_utxo = prog.utxos[prog.args.utxo_index.value + 1]
          ELSE /\ prog.ending = "invalid_index"
               /\ Printed("Invalid UTXO index")
               /\ ~CreateCalled
               /\ ~SignCalled
    /\ prog.final_tx # None => SignedOverSelected

=============================================================================
